---- MODULE Spec2Model ----
(***************************************************************************)
(* File-system-backed coordination helpers of utils/file_io.py:            *)
(*   - SequentialAssigner: round-robin cursor persisted in an index file   *)
(*   - synchronize_start_time / init_game_file: start-time barrier file    *)
(*   - save_player_to_lobby_file / load_players_from_lobby: roster file    *)
(* Files are modelled by an existence flag and their text.  Environment    *)
(* assumption: open/read/write system calls themselves succeed (no disk or *)
(* permission faults); every failure modelled is one the file's contents   *)
(* or a concurrent caller can cause.                                       *)
(***************************************************************************)
EXTENDS Integers, Sequences, FiniteSets, TLC

VARIABLES
    \* ---- SequentialAssigner ----
    listFile,      \* the JSON list file at list_path (never written by this code)
    indexExists,   \* os.path.exists(index_path)
    indexText,     \* text of the index file (sequence of characters)
    constructed,   \* per instance: "none" | "ok" | "raised"
    fresh,         \* the instance constructed since the last completed assign(), if any (else 0)
    items,         \* per instance: self.items
    apc,           \* per instance: position inside assign()
    idx,           \* per instance: local idx of assign()
    selected_item, \* per instance: local selected_item of assign()
    next_idx,      \* per instance: local next_idx of assign()
    seen,          \* per instance: what _read_index found in the index file
    fallback,      \* per instance: assign() took its "invalid item" branch (line 115-117)
    log,           \* completed assign() calls, in order of return
    \* ---- players.json of one lobby ----
    playersExists, \* os.path.exists(players.json)
    playersData,   \* its content: [ok, list]; ok = FALSE: empty or not valid JSON
    code_name,     \* per player: ps.code_name
    lpc,           \* per player: position inside save_player_to_lobby_file()
    players,       \* per player: local list "players" of save_player_to_lobby_file()
    saves,         \* per player: completed save_player_to_lobby_file() calls
    loaded,        \* the last stand-alone load_players_from_lobby(): its outcome, the
                   \* file it found and the number of saves that had returned
    lastSave,      \* the save call begun last: its caller and the file it found
    history,       \* the states saved by the calls that returned, in order
    \* ---- start-time file ----
    startExists,   \* os.path.exists(gs.start_time_path)
    startText,     \* its content: <<>> (empty) or <<s>>, the timestamp of second s
    now,           \* the wall clock, in ticks (TicksPerSecond ticks per second)
    spc,           \* per player: position inside synchronize_start_time()
    timekeeper,    \* per player: ps.timekeeper
    starttime,     \* per player: ps.starttime in ticks (NoTime: not set)
    gsPlayers,     \* per player: gs.players of the player's GameState
    sawFile,       \* per player: outcome of the existence check of line 15
    created,       \* per player: its init_game_file() created the file
    wrote,         \* per player: the text it wrote to the start-time file
    readText,      \* per player: the text it read from the start-time file
    \* ---- chat file and one reader of it ----
    chatFile,      \* the lines of the chat file, as f.readlines() returns them
    last_line,     \* the reader's cursor: the last_line it passes to its next call
    received,      \* every message the reader was handed in new_messages_list, in order
    lastRead,      \* the reader's last call: its argument and the tuple it returned
    appended       \* a line was appended since the reader's last call

avars == <<listFile, indexExists, indexText, constructed, fresh, items, apc, idx,
           selected_item, next_idx, seen, fallback, log>>

lvars == <<playersExists, playersData, code_name, lpc, players, saves, loaded,
          lastSave, history>>

svars == <<startExists, startText, now, spc, timekeeper, starttime, gsPlayers,
           sawFile, created, wrote, readText>>

cvars == <<chatFile, last_line, received, lastRead, appended>>

vars == <<avars, lvars, svars, cvars>>

-----------------------------------------------------------------------------
(* Bounds *)
NAssigners == 2
MaxItems == 3
MaxCalls == 4
NPlayers == 2
MaxSaves == 3
MaxTime == 3
TicksPerSecond == 2
MaxLines == 3

Assigners == 1..NAssigners
Players == 1..NPlayers

-----------------------------------------------------------------------------
(* Strings: sequences of characters.  str.strip() and str.upper().         *)

Whitespace == {" ", "\n"}

Upper == [c \in {"a", "b", "A", "B", " ", "\n"} |->
            CASE c = "a" -> "A" [] c = "b" -> "B" [] OTHER -> c]

RECURSIVE lstrip(_)
lstrip(s) == IF s # <<>> /\ Head(s) \in Whitespace THEN lstrip(Tail(s)) ELSE s

RECURSIVE rstrip(_)
rstrip(s) == IF s # <<>> /\ s[Len(s)] \in Whitespace
             THEN rstrip(SubSeq(s, 1, Len(s) - 1)) ELSE s

strip(s) == rstrip(lstrip(s))

upper(s) == [i \in 1..Len(s) |-> Upper[s[i]]]

\* Sequences over S of length at most n
SeqsUpTo(S, n) == UNION {[1..k -> S] : k \in 0..n}

-----------------------------------------------------------------------------
(* The list file: what json.load returns for it.                           *)

\* strings found in the list under the key: a blank one, one that needs strip()
\* and upper(), and one that is already stripped and upper-cased
RawItems == {<<" ">>, <<" ", "a", "\n">>, <<"B">>}

ListFile(kind, list) == [kind |-> kind, list |-> list]

\* "missing": no file; "badjson": not valid JSON; "notobject": valid JSON that is
\* no object; "nokey": object without the key; "notlist": key holds a non-list;
\* "nonstring": key holds a list with a value that is no string (number, null, ...)
ListFiles == {ListFile(k, <<>>) : k \in {"missing", "badjson", "notobject", "nokey",
                                        "notlist", "nonstring"}}
             \cup {ListFile("list", l) : l \in SeqsUpTo(RawItems, MaxItems)}

\* item.strip() is falsy
IsBlank(item) == strip(item) = <<>>

\* [item for item in list if item.strip()]
RECURSIVE NonBlankItems(_)
NonBlankItems(list) ==
    IF list = <<>> THEN <<>>
    ELSE IF IsBlank(Head(list)) THEN NonBlankItems(Tail(list))
         ELSE <<Head(list)>> \o NonBlankItems(Tail(list))

\* _load_items without its "if not items: raise" check (lines 87-88)
_load_items_no_empty_check(file) ==
    IF file.kind = "list"
    THEN LET kept == NonBlankItems(file.list)
         IN [raised |-> FALSE, error |-> "",
             items |-> [i \in 1..Len(kept) |-> upper(strip(kept[i]))]]
    ELSE [raised |-> TRUE, error |-> "ValueError", items |-> <<>>]

\* SequentialAssigner._load_items: [raised, error, items]
_load_items(file) ==
    IF file.kind = "missing" THEN [raised |-> TRUE, error |-> "FileNotFoundError", items |-> <<>>]
    ELSE IF file.kind = "badjson" THEN [raised |-> TRUE, error |-> "IOError", items |-> <<>>]
    ELSE IF file.kind = "notobject" THEN [raised |-> TRUE, error |-> "TypeError", items |-> <<>>]
    ELSE IF file.kind \in {"nokey", "notlist"}
         THEN [raised |-> TRUE, error |-> "ValueError", items |-> <<>>]
    ELSE IF file.kind = "nonstring"
         THEN [raised |-> TRUE, error |-> "AttributeError", items |-> <<>>]
    ELSE LET kept == NonBlankItems(file.list)
             its == [i \in 1..Len(kept) |-> upper(strip(kept[i]))]
         IN IF its = <<>>
            THEN [raised |-> TRUE, error |-> "ValueError", items |-> <<>>]
            ELSE [raised |-> FALSE, error |-> "", items |-> its]

-----------------------------------------------------------------------------
(* The index file: str(idx) and int(text).                                 *)

Digits == <<"0", "1", "2", "3", "4", "5", "6", "7", "8", "9">>
DigitChars == {Digits[i] : i \in 1..10}
DigitVal(c) == (CHOOSE i \in 1..10 : Digits[i] = c) - 1

\* str(n) for n >= 0
RECURSIVE IntToStr(_)
IntToStr(n) == IF n < 10 THEN <<Digits[n + 1]>>
               ELSE IntToStr(n \div 10) \o <<Digits[(n % 10) + 1]>>

RECURSIVE DigitsVal(_, _)
DigitsVal(s, acc) == IF s = <<>> THEN acc
                     ELSE DigitsVal(Tail(s), 10 * acc + DigitVal(Head(s)))

\* a byte sequence that is not valid UTF-8: f.read() raises UnicodeDecodeError
BadByte == "\\xff"

\* int(text.strip()): [ok, val]; ok = FALSE stands for ValueError
ParseInt(text) ==
    LET t == strip(text)
        signed == t # <<>> /\ Head(t) \in {"-", "+"}
        body == IF signed THEN Tail(t) ELSE t
    IN IF body = <<>> \/ \E i \in 1..Len(body) : body[i] \notin DigitChars
       THEN [ok |-> FALSE, val |-> 0]
       ELSE [ok |-> TRUE,
             val |-> IF signed /\ Head(t) = "-" THEN 0 - DigitsVal(body, 0)
                     ELSE DigitsVal(body, 0)]

\* _read_index that never finds the stored cursor
_read_index_lost(exists, text, n) == 0

\* _read_index with the range check "0 <= idx <= len(self.items)"
_read_index_off_by_one(exists, text, n) ==
    IF ~exists \/ (\E i \in 1..Len(text) : text[i] = BadByte) THEN 0
    ELSE LET p == ParseInt(text)
         IN IF p.ok /\ 0 <= p.val /\ p.val <= n THEN p.val ELSE 0

\* _read_index without the range check of lines 99-100
_read_index_no_range_check(exists, text, n) ==
    IF ~exists \/ (\E i \in 1..Len(text) : text[i] = BadByte) THEN 0
    ELSE LET p == ParseInt(text)
         IN IF p.ok THEN p.val ELSE 0

\* SequentialAssigner._read_index on the index file (exists, text) for a list of n items
_read_index(exists, text, n) ==
    IF ~exists THEN 0
    ELSE IF \E i \in 1..Len(text) : text[i] = BadByte THEN 0
    ELSE LET p == ParseInt(text)
         IN IF ~p.ok THEN 0
            ELSE IF ~(0 <= p.val /\ p.val < n) THEN 0
            ELSE p.val

\* self.items[i] as Python evaluates it: [ok, val]; ok = FALSE stands for IndexError
Subscript(list, i) ==
    LET n == Len(list)
    IN IF 0 <= i /\ i < n THEN [ok |-> TRUE, val |-> list[i + 1]]
       ELSE IF 0 - n <= i /\ i < 0 THEN [ok |-> TRUE, val |-> list[n + i + 1]]
       ELSE [ok |-> FALSE, val |-> <<>>]

\* line 118 with the "+ 1" forgotten
NextIdx_stuck(i, n) == i % n

\* line 118: next_idx = (idx + 1) % len(self.items)
NextIdx(i, n) == (i + 1) % n

\* index files the first assign() may find
IndexTexts == {<<>>, <<"0">>, <<"1">>, <<" ", "2", "\n">>, <<"3">>, <<"1", "0">>,
               <<"-", "1">>, <<"1", "x">>, <<BadByte>>}

-----------------------------------------------------------------------------
(* SequentialAssigner: construction and assign()                           *)

NoSeen == [exists |-> FALSE, text |-> <<>>]

InitAssigner ==
    /\ listFile \in ListFiles
    /\ constructed = [a \in Assigners |-> "none"]
    /\ fresh = 0
    /\ items = [a \in Assigners |-> <<>>]
    /\ apc = [a \in Assigners |-> "idle"]
    /\ idx = [a \in Assigners |-> 0]
    /\ selected_item = [a \in Assigners |-> <<>>]
    /\ next_idx = [a \in Assigners |-> 0]
    /\ seen = [a \in Assigners |-> NoSeen]
    /\ fallback = [a \in Assigners |-> FALSE]
    /\ log = <<>>

\* SequentialAssigner.__init__
Construct(a) ==
    /\ constructed[a] = "none"
    /\ LET r == _load_items(listFile)
       IN /\ constructed' = [constructed EXCEPT ![a] = IF r.raised THEN "raised" ELSE "ok"]
          /\ items' = [items EXCEPT ![a] = r.items]
          /\ fresh' = IF ~r.raised /\ log # <<>> THEN a ELSE 0
    /\ UNCHANGED <<listFile, indexExists, indexText, apc, idx, selected_item,
                   next_idx, seen, fallback, log>>
    /\ UNCHANGED <<lvars, svars, cvars>>

NoCallRunning == \A b \in Assigners : apc[b] = "idle"

\* assign(), lines 113-118: read the cursor, select the item, compute the next cursor
AssignRead(a) ==
    /\ constructed[a] = "ok"
    /\ apc[a] = "idle"
    /\ Len(log) < MaxCalls
    /\ LET n == Len(items[a])
           i == _read_index(indexExists, indexText, n)
       IN /\ seen' = [seen EXCEPT ![a] = [exists |-> indexExists, text |-> indexText]]
          /\ idx' = [idx EXCEPT ![a] = i]
          /\ IF ~Subscript(items[a], i).ok
             THEN \* self.items[idx] raises IndexError (line 114)
                  /\ apc' = [apc EXCEPT ![a] = "raised"]
                  /\ UNCHANGED <<selected_item, next_idx, fallback>>
             ELSE LET it == Subscript(items[a], i).val
                      bad == it = <<>> \/ ~(\E j \in 1..n : items[a][j] = it)
                  IN /\ fallback' = [fallback EXCEPT ![a] = fallback[a] \/ bad]
                     /\ selected_item' = [selected_item EXCEPT ![a] =
                                             IF bad THEN items[a][1] ELSE it]
                     /\ next_idx' = [next_idx EXCEPT ![a] = NextIdx(i, n)]
                     /\ apc' = [apc EXCEPT ![a] = "open"]
    /\ UNCHANGED <<listFile, indexExists, indexText, constructed, fresh, items, log>>
    /\ UNCHANGED <<lvars, svars, cvars>>

\* _write_index, line 107: open(index_path, "w") creates or truncates the file
AssignOpen(a) ==
    /\ apc[a] = "open"
    /\ indexExists' = TRUE
    /\ indexText' = <<>>
    /\ apc' = [apc EXCEPT ![a] = "write"]
    /\ UNCHANGED <<listFile, constructed, fresh, items, idx, selected_item, next_idx,
                   seen, fallback, log>>
    /\ UNCHANGED <<lvars, svars, cvars>>

\* _write_index, line 108 and the close of the file; assign() returns (line 128)
AssignWrite(a) ==
    /\ apc[a] = "write"
    /\ indexExists' = TRUE
    /\ indexText' = IntToStr(next_idx[a])
    /\ log' = Append(log, [seen |-> seen[a], idx |-> idx[a], item |-> selected_item[a],
                           stored |-> next_idx[a], items |-> items[a]])
    /\ fresh' = 0
    /\ apc' = [apc EXCEPT ![a] = "idle"]
    /\ idx' = [idx EXCEPT ![a] = 0]
    /\ selected_item' = [selected_item EXCEPT ![a] = <<>>]
    /\ next_idx' = [next_idx EXCEPT ![a] = 0]
    /\ seen' = [seen EXCEPT ![a] = NoSeen]
    /\ UNCHANGED <<listFile, constructed, items, fallback>>
    /\ UNCHANGED <<lvars, svars, cvars>>

-----------------------------------------------------------------------------
(* players.json: save_player_to_lobby_file and load_players_from_lobby     *)

CodeNames == {"ALPHA", "BRAVO"}

\* asdict(ps): the code name and the player's other fields (standing for them:
\* the player the state belongs to; 0 is a player of an earlier session)
Entry(c, p) == [code_name |-> c, owner |-> p]

NoFile == [ok |-> FALSE, list |-> <<>>]
Json(list) == [ok |-> TRUE, list |-> list]

\* PlayerState(**d): the state object built from a roster entry
PlayerState(d) == [class |-> "PlayerState", code_name |-> d.code_name, owner |-> d.owner]

NoLoad == [state |-> "none", list |-> <<>>, exists |-> FALSE, data |-> NoFile,
           saved |-> 0]
NoSave == [p |-> 0, exists |-> FALSE, data |-> NoFile]

\* players.json before the first call: absent, empty or corrupt, or a list without
\* duplicate code names
InitPlayersFile ==
    \/ playersExists = FALSE /\ playersData = NoFile
    \/ playersExists = TRUE /\ playersData = NoFile
    \/ playersExists = TRUE /\ playersData \in
          ({Json(<<>>)} \cup {Json(<<Entry(c, 0)>>) : c \in CodeNames}
           \cup {Json(<<Entry(cd[1], 0), Entry(cd[2], 0)>>) :
                    cd \in {x \in CodeNames \X CodeNames : x[1] # x[2]}})

InitLobby ==
    /\ InitPlayersFile
    /\ code_name \in [Players -> CodeNames]
    /\ lpc = [p \in Players |-> "idle"]
    /\ players = [p \in Players |-> <<>>]
    /\ saves = [p \in Players |-> 0]
    /\ loaded = NoLoad
    /\ lastSave = NoSave
    /\ history = <<>>

\* lines 150-151 without the duplicate test
AddPlayer_always(list, c, p) == Append(list, Entry(c, p))

\* lines 150-151 overwriting the entry that has ps.code_name
AddPlayer_replace(list, c, p) ==
    IF \E i \in 1..Len(list) : list[i].code_name = c
    THEN [i \in 1..Len(list) |-> IF list[i].code_name = c THEN Entry(c, p) ELSE list[i]]
    ELSE Append(list, Entry(c, p))

\* lines 150-151 inserting at the head of the list
AddPlayer_front(list, c, p) ==
    IF \E i \in 1..Len(list) : list[i].code_name = c THEN list
    ELSE <<Entry(c, p)>> \o list

\* lines 150-151: append asdict(ps) unless an entry has ps.code_name
AddPlayer(list, c, p) ==
    IF \E i \in 1..Len(list) : list[i].code_name = c THEN list
    ELSE Append(list, Entry(c, p))

\* save_player_to_lobby_file calls begun so far, by all players
RECURSIVE SavesBegun(_)
SavesBegun(P) ==
    IF P = {} THEN 0
    ELSE LET p == CHOOSE q \in P : TRUE
         IN saves[p] + (IF lpc[p] = "idle" THEN 0 ELSE 1) + SavesBegun(P \ {p})

\* line 142: os.path.exists(file_path)
SaveCheck(p) ==
    /\ lpc[p] = "idle"
    /\ SavesBegun(Players) < MaxSaves
    /\ IF playersExists
       THEN /\ lpc' = [lpc EXCEPT ![p] = "read"]
            /\ UNCHANGED players
       ELSE /\ players' = [players EXCEPT ![p] = AddPlayer(<<>>, code_name[p], p)]
            /\ lpc' = [lpc EXCEPT ![p] = "open"]
    /\ lastSave' = [p |-> p, exists |-> playersExists, data |-> playersData]
    /\ UNCHANGED <<playersExists, playersData, code_name, saves, loaded, history>>
    /\ UNCHANGED <<avars, svars, cvars>>

\* lines 143-151: json.load (an empty or corrupt file leaves players = []), then
\* the duplicate test
SaveRead(p) ==
    /\ lpc[p] = "read"
    /\ players' = [players EXCEPT ![p] =
                      AddPlayer(IF playersData.ok THEN playersData.list ELSE <<>>,
                                code_name[p], p)]
    /\ lpc' = [lpc EXCEPT ![p] = "open"]
    /\ UNCHANGED <<playersExists, playersData, code_name, saves, loaded, lastSave, history>>
    /\ UNCHANGED <<avars, svars, cvars>>

\* line 154: open(file_path, "w") creates or truncates the file
SaveOpen(p) ==
    /\ lpc[p] = "open"
    /\ playersExists' = TRUE
    /\ playersData' = NoFile
    /\ lpc' = [lpc EXCEPT ![p] = "dump"]
    /\ UNCHANGED <<code_name, players, saves, loaded, lastSave, history>>
    /\ UNCHANGED <<avars, svars, cvars>>

\* line 155 and the close of the file: the list reaches the file; the call returns
SaveDump(p) ==
    /\ lpc[p] = "dump"
    /\ playersExists' = TRUE
    /\ playersData' = Json(players[p])
    /\ players' = [players EXCEPT ![p] = <<>>]
    /\ saves' = [saves EXCEPT ![p] = saves[p] + 1]
    /\ lpc' = [lpc EXCEPT ![p] = "idle"]
    /\ history' = Append(history, PlayerState(Entry(code_name[p], p)))
    /\ UNCHANGED <<code_name, loaded, lastSave>>
    /\ UNCHANGED <<avars, svars, cvars>>

\* load_players_from_lobby returning [] for a file json.load rejects
load_players_from_lobby_lenient(exists, data) ==
    IF ~exists \/ ~data.ok THEN [raised |-> FALSE, list |-> <<>>]
    ELSE [raised |-> FALSE,
          list |-> [i \in 1..Len(data.list) |-> PlayerState(data.list[i])]]

\* load_players_from_lobby: [raised, list]
load_players_from_lobby(exists, data) ==
    IF ~exists THEN [raised |-> FALSE, list |-> <<>>]
    ELSE IF ~data.ok THEN [raised |-> TRUE, list |-> <<>>]
    ELSE [raised |-> FALSE,
          list |-> [i \in 1..Len(data.list) |-> PlayerState(data.list[i])]]

\* a stand-alone call of load_players_from_lobby
Load ==
    /\ LET r == load_players_from_lobby(playersExists, playersData)
       IN loaded' = [state |-> IF r.raised THEN "raised" ELSE "ok", list |-> r.list,
                     exists |-> playersExists, data |-> playersData,
                     saved |-> Len(history)]
    /\ UNCHANGED <<playersExists, playersData, code_name, lpc, players, saves,
                   lastSave, history>>
    /\ UNCHANGED <<avars, svars, cvars>>

\* the save calls of the players of one lobby, interleaved step by step
NextLobby ==
    \E p \in Players :
        \/ SaveCheck(p)
        \/ SaveRead(p)
        \/ SaveOpen(p)
        \/ SaveDump(p)

\* no save_player_to_lobby_file call is between its first and its last step
NoSaveRunning == \A q \in Players : lpc[q] = "idle"

\* calls that do not overlap: a call begins only when no save is running
NextRoster ==
    \/ \E p \in Players : NoSaveRunning /\ SaveCheck(p)
    \/ \E p \in Players :
          \/ SaveRead(p)
          \/ SaveOpen(p)
          \/ SaveDump(p)
    \/ NoSaveRunning /\ Load

-----------------------------------------------------------------------------
(* The start-time file: synchronize_start_time and init_game_file          *)

NoTime == 0 - 1

\* strftime("%Y-%m-%d %H:%M:%S"): the second the tick lies in
strftime(t) == <<t \div TicksPerSecond>>

\* strptime(text, "%Y-%m-%d %H:%M:%S"): [ok, val]; ok = FALSE stands for ValueError
strptime(text) ==
    IF Len(text) = 1 THEN [ok |-> TRUE, val |-> text[1] * TicksPerSecond]
    ELSE [ok |-> FALSE, val |-> NoTime]

InitSync ==
    /\ startExists = FALSE
    /\ startText = <<>>
    /\ now = 0
    /\ spc = [p \in Players |-> "idle"]
    /\ timekeeper = [p \in Players |-> FALSE]
    /\ starttime = [p \in Players |-> NoTime]
    /\ gsPlayers = [p \in Players |-> <<>>]
    /\ sawFile = [p \in Players |-> "none"]
    /\ created = [p \in Players |-> FALSE]
    /\ wrote = [p \in Players |-> <<>>]
    /\ readText = [p \in Players |-> <<>>]

\* the clock advances
Tick ==
    /\ now < MaxTime
    /\ now' = now + 1
    /\ UNCHANGED <<startExists, startText, spc, timekeeper, starttime, gsPlayers,
                   sawFile, created, wrote, readText>>
    /\ UNCHANGED <<avars, lvars, cvars>>

\* line 15: if not os.path.exists(gs.start_time_path)
SyncCheck(p) ==
    /\ spc[p] = "idle"
    /\ sawFile' = [sawFile EXCEPT ![p] = IF startExists THEN "present" ELSE "absent"]
    /\ spc' = [spc EXCEPT ![p] = IF startExists THEN "wait" ELSE "load"]
    /\ UNCHANGED <<startExists, startText, now, timekeeper, starttime, gsPlayers,
                   created, wrote, readText>>
    /\ UNCHANGED <<avars, lvars, cvars>>

\* lines 17-20: gs.players = load_players_from_lobby(gs); ps.timekeeper = True
SyncLoad(p) ==
    /\ spc[p] = "load"
    /\ LET r == load_players_from_lobby(playersExists, playersData)
       IN IF r.raised
          THEN /\ spc' = [spc EXCEPT ![p] = "raised"]
               /\ UNCHANGED <<gsPlayers, timekeeper>>
          ELSE /\ gsPlayers' = [gsPlayers EXCEPT ![p] = r.list]
               /\ timekeeper' = [timekeeper EXCEPT ![p] = TRUE]
               /\ spc' = [spc EXCEPT ![p] = "init"]
    /\ UNCHANGED <<startExists, startText, now, starttime, sawFile, created, wrote,
                   readText>>
    /\ UNCHANGED <<avars, lvars, cvars>>

\* init_game_file, line 46: if not os.path.exists(path)
InitCheck(p) ==
    /\ spc[p] = "init"
    /\ spc' = [spc EXCEPT ![p] = IF startExists THEN "clock" ELSE "create"]
    /\ UNCHANGED <<startExists, startText, now, timekeeper, starttime, gsPlayers,
                   sawFile, created, wrote, readText>>
    /\ UNCHANGED <<avars, lvars, cvars>>

\* init_game_file, lines 47-48: open(path, "w") and write(""): an empty file
InitCreate(p) ==
    /\ spc[p] = "create"
    /\ created' = [created EXCEPT ![p] = ~startExists]
    /\ startExists' = TRUE
    /\ startText' = <<>>
    /\ spc' = [spc EXCEPT ![p] = "clock"]
    /\ UNCHANGED <<now, timekeeper, starttime, gsPlayers, sawFile, wrote, readText>>
    /\ UNCHANGED <<avars, lvars, cvars>>

\* line 26: ps.starttime = datetime.now(), sub-second part included
SyncClock(p) ==
    /\ spc[p] = "clock"
    /\ starttime' = [starttime EXCEPT ![p] = now]
    /\ spc' = [spc EXCEPT ![p] = "open"]
    /\ UNCHANGED <<startExists, startText, now, timekeeper, gsPlayers, sawFile,
                   created, wrote, readText>>
    /\ UNCHANGED <<avars, lvars, cvars>>

\* line 28: open(gs.start_time_path, "w") truncates the file
SyncOpen(p) ==
    /\ spc[p] = "open"
    /\ startExists' = TRUE
    /\ startText' = <<>>
    /\ spc' = [spc EXCEPT ![p] = "write"]
    /\ UNCHANGED <<now, timekeeper, starttime, gsPlayers, sawFile, created, wrote,
                   readText>>
    /\ UNCHANGED <<avars, lvars, cvars>>

\* line 29 and the close of the file: the formatted start time reaches the file
SyncWrite(p) ==
    /\ spc[p] = "write"
    /\ startExists' = TRUE
    /\ startText' = strftime(starttime[p])
    /\ wrote' = [wrote EXCEPT ![p] = strftime(starttime[p])]
    /\ spc' = [spc EXCEPT ![p] = "done"]
    /\ UNCHANGED <<now, timekeeper, starttime, gsPlayers, sawFile, created, readText>>
    /\ UNCHANGED <<avars, lvars, cvars>>

\* the polling loop with its test inverted: while os.path.exists(...): sleep(1)
SyncWait_inverted(p) ==
    /\ spc[p] = "wait"
    /\ spc' = [spc EXCEPT ![p] = IF startExists THEN "wait" ELSE "read"]
    /\ UNCHANGED <<startExists, startText, now, timekeeper, starttime, gsPlayers,
                   sawFile, created, wrote, readText>>
    /\ UNCHANGED <<avars, lvars, cvars>>

\* lines 33-35: while not os.path.exists(gs.start_time_path): sleep(1)
SyncWait(p) ==
    /\ spc[p] = "wait"
    /\ spc' = [spc EXCEPT ![p] = IF startExists THEN "read" ELSE "wait"]
    /\ UNCHANGED <<startExists, startText, now, timekeeper, starttime, gsPlayers,
                   sawFile, created, wrote, readText>>
    /\ UNCHANGED <<avars, lvars, cvars>>

\* lines 38-41: read the file and parse the start time
SyncRead(p) ==
    /\ spc[p] = "read"
    /\ readText' = [readText EXCEPT ![p] = startText]
    /\ IF strptime(startText).ok
       THEN /\ starttime' = [starttime EXCEPT ![p] = strptime(startText).val]
            /\ spc' = [spc EXCEPT ![p] = "done"]
       ELSE /\ spc' = [spc EXCEPT ![p] = "raised"]
            /\ UNCHANGED starttime
    /\ UNCHANGED <<startExists, startText, now, timekeeper, gsPlayers, sawFile,
                   created, wrote>>
    /\ UNCHANGED <<avars, lvars, cvars>>

NextSync ==
    \/ Tick
    \/ \E p \in Players :
          \/ SyncCheck(p)
          \/ SyncLoad(p)
          \/ InitCheck(p)
          \/ InitCreate(p)
          \/ SyncClock(p)
          \/ SyncOpen(p)
          \/ SyncWrite(p)
          \/ SyncWait(p)
          \/ SyncRead(p)

-----------------------------------------------------------------------------
(* The chat file: read_new_messages                                        *)

\* whole lines a writer appends: a blank one, a message, a message with blanks
\* around it
ChatLines == {<<" ", "\n">>, <<"a", "\n">>, <<" ", "B", " ", "\n">>}

\* [line.strip() for line in lines if line.strip()]
RECURSIVE full_chat_list(_)
full_chat_list(lines) ==
    IF lines = <<>> THEN <<>>
    ELSE IF strip(Head(lines)) = <<>> THEN full_chat_list(Tail(lines))
         ELSE <<strip(Head(lines))>> \o full_chat_list(Tail(lines))

\* list[k:] for k >= 0
SliceFrom(list, k) == SubSeq(list, k + 1, Len(list))

\* read_new_messages slicing the raw lines instead of full_chat_list
read_new_messages_raw_slice(lines, last) ==
    LET full == full_chat_list(lines)
        new == full_chat_list(SliceFrom(lines, last))
    IN [full_chat_list |-> full, new_messages_list |-> new, last_line |-> last + Len(new)]

\* read_new_messages(path, last_line) on a file with the given lines
read_new_messages(lines, last) ==
    LET full == full_chat_list(lines)
        new == SliceFrom(full, last)
    IN [full_chat_list |-> full, new_messages_list |-> new, last_line |-> last + Len(new)]

NoRead == [called |-> FALSE, arg |-> 0, appended |-> FALSE, lines |-> 0,
           full_chat_list |-> <<>>, new_messages_list |-> <<>>, last_line |-> 0]

\* an existing, empty chat file and a reader that starts with last_line = 0
InitChat ==
    /\ chatFile = <<>>
    /\ last_line = 0
    /\ received = <<>>
    /\ lastRead = NoRead
    /\ appended = FALSE

\* a writer appends one whole line (the commented-out append_message)
AppendLine ==
    /\ Len(chatFile) < MaxLines
    /\ \E line \in ChatLines : chatFile' = Append(chatFile, line)
    /\ appended' = TRUE
    /\ UNCHANGED <<last_line, received, lastRead>>
    /\ UNCHANGED <<avars, lvars, svars>>

\* the reader calls read_new_messages(path, last_line) and keeps the returned last_line
ReadNew ==
    /\ LET r == read_new_messages(chatFile, last_line)
       IN /\ lastRead' = [called |-> TRUE, arg |-> last_line, appended |-> appended,
                          lines |-> Len(chatFile),
                          full_chat_list |-> r.full_chat_list,
                          new_messages_list |-> r.new_messages_list,
                          last_line |-> r.last_line]
          /\ received' = received \o r.new_messages_list
          /\ last_line' = r.last_line
    /\ appended' = FALSE
    /\ UNCHANGED chatFile
    /\ UNCHANGED <<avars, lvars, svars>>

NextChat ==
    \/ AppendLine
    \/ ReadNew

-----------------------------------------------------------------------------
(* Specifications                                                          *)

\* the component takes no part in the specification
IdleAssigner ==
    /\ InitAssigner
    /\ listFile = ListFile("missing", <<>>)
    /\ indexExists = FALSE
    /\ indexText = <<>>

IdleLobby ==
    /\ InitLobby
    /\ playersExists = FALSE
    /\ code_name = [p \in Players |-> "ALPHA"]

\* One caller at a time: an assign() starts only when no other call is running
NextSerial ==
    \E a \in Assigners :
        \/ Construct(a)
        \/ (NoCallRunning /\ AssignRead(a))
        \/ AssignOpen(a)
        \/ AssignWrite(a)

\* the index file does not exist when the first assign() runs
InitSerial ==
    /\ InitAssigner
    /\ IdleLobby
    /\ InitSync
    /\ InitChat
    /\ indexExists = FALSE
    /\ indexText = <<>>

SpecSerial == InitSerial /\ [][NextSerial]_vars

\* the index file holds anything when the first assign() runs
InitIndex ==
    /\ InitAssigner
    /\ IdleLobby
    /\ InitSync
    /\ InitChat
    /\ \/ indexExists = FALSE /\ indexText = <<>>
       \/ indexExists = TRUE /\ indexText \in IndexTexts

SpecIndex == InitIndex /\ [][NextSerial]_vars

\* Several processes, each with its own instance: calls of assign() overlap freely
NextConcurrent ==
    \E a \in Assigners :
        \/ Construct(a)
        \/ AssignRead(a)
        \/ AssignOpen(a)
        \/ AssignWrite(a)

SpecConcurrent == InitSerial /\ [][NextConcurrent]_vars


InitGame ==
    /\ IdleAssigner
    /\ InitLobby
    /\ InitSync
    /\ InitChat

\* players of one lobby save themselves, in any interleaving
SpecLobby == InitGame /\ [][NextLobby]_vars

\* players of one game call synchronize_start_time, in any interleaving
SpecSync == InitGame /\ [][NextSync]_vars

InitChatOnly ==
    /\ IdleAssigner
    /\ IdleLobby
    /\ InitSync
    /\ InitChat

\* one lobby, any players.json to begin with, calls that do not overlap
SpecRoster == InitGame /\ [][NextRoster]_vars

InitAbsent ==
    /\ InitGame
    /\ ~playersExists

\* the same, in a lobby whose players.json does not exist yet
SpecRoundTrip == InitAbsent /\ [][NextRoster]_vars

\* a chat file that grows by whole lines, and one reader polling it
SpecChat == InitChatOnly /\ [][NextChat]_vars

\* the next step of player p inside synchronize_start_time
SyncStep(p) ==
    \/ SyncCheck(p)
    \/ SyncLoad(p)
    \/ InitCheck(p)
    \/ InitCreate(p)
    \/ SyncClock(p)
    \/ SyncOpen(p)
    \/ SyncWrite(p)
    \/ SyncWait(p)
    \/ SyncRead(p)

InitSyncFair ==
    /\ InitGame
    /\ code_name = [p \in Players |-> "ALPHA"]

\* the calls alone, all within one reading of the clock
NextSyncCalls == \E p \in Players : SyncStep(p)

\* every player is a running process: a call that can take its next step takes it
SpecSyncFair ==
    InitSyncFair /\ [][NextSyncCalls]_vars /\ \A p \in Players : WF_vars(SyncStep(p))

-----------------------------------------------------------------------------
(* Properties of SequentialAssigner                                        *)

\* the 0-based list position p of an instance's items
ItemAt(list, p) == list[p + 1]

\* C1: with one caller at a time and no index file at the start, the k-th
\* completed assign() returns items[(k-1) mod n], and any n consecutive calls
\* use each list position 0..n-1 exactly once.
C1_RoundRobin ==
    \A k \in 1..Len(log) :
        LET n == Len(log[k].items)
        IN /\ n > 0
           /\ log[k].item = ItemAt(log[k].items, (k - 1) % n)
           /\ log[k].idx = (k - 1) % n
           /\ (k + n - 1 <= Len(log)) =>
                  {log[j].idx : j \in k..(k + n - 1)} = 0..(n - 1)

\* a list of three items has been handed out completely and the fourth call
\* returned the first item again
C1_Witness ==
    /\ Len(log) >= 4
    /\ Len(log[1].items) = 3
    /\ log[1].items[1] # log[1].items[2]
    /\ log[4].item = log[1].items[1]

\* C3: the cursor lives in the index file: when the previous completed assign()
\* used position i, the next assign(), whichever instance makes it, uses
\* position (i+1) mod n and selects items[(i+1) mod n].
C3_PersistedCursor ==
    /\ \A k \in 2..Len(log) :
          LET n == Len(log[k].items)
          IN /\ log[k].idx = (log[k - 1].idx + 1) % n
             /\ log[k].item = ItemAt(log[k].items, (log[k - 1].idx + 1) % n)
    /\ \A a \in Assigners :
          (apc[a] # "idle" /\ log # <<>>) =>
              LET n == Len(items[a])
                  i == log[Len(log)].idx
              IN /\ apc[a] # "raised"
                 /\ idx[a] = (i + 1) % n
                 /\ selected_item[a] = ItemAt(items[a], (i + 1) % n)

\* an instance constructed after the previous call returned is about to return
\* the next item of a list of at least two items
C3_Witness ==
    \E a \in Assigners :
        /\ apc[a] = "write"
        /\ fresh = a
        /\ log # <<>>
        /\ Len(items[a]) >= 2
        /\ idx[a] # 0

\* C4: the index assign() selects with and the index it writes are both in
\* 0..len(items)-1, whatever the index file held before.
C4_IndexInBounds ==
    /\ \A a \in Assigners :
          apc[a] # "idle" =>
              /\ idx[a] \in 0..(Len(items[a]) - 1)
              /\ next_idx[a] \in 0..(Len(items[a]) - 1)
    /\ \A k \in 1..Len(log) :
          /\ log[k].idx \in 0..(Len(log[k].items) - 1)
          /\ log[k].stored \in 0..(Len(log[k].items) - 1)
    /\ (log # <<>> /\ NoCallRunning) =>
          /\ ParseInt(indexText).ok
          /\ ParseInt(indexText).val \in 0..(Len(log[Len(log)].items) - 1)

\* an assign() completed on an index file that held len(items)
C4_Witness ==
    /\ log # <<>>
    /\ log[1].seen.exists
    /\ log[1].seen.text = IntToStr(Len(log[1].items))

\* the index file found by a call gives no usable cursor
NoUsableIndex(file, n) ==
    \/ ~file.exists
    \/ \E i \in 1..Len(file.text) : file.text[i] = BadByte
    \/ ~ParseInt(file.text).ok
    \/ ParseInt(file.text).val < 0
    \/ ParseInt(file.text).val >= n

\* C5: an assign() that finds the index file missing, unreadable, not an
\* integer or out of range does not fail, returns items[0] and stores
\* 1 mod len(items).
C5_FallbackToZero ==
    /\ \A a \in Assigners : apc[a] # "raised"
    /\ \A k \in 1..Len(log) :
          NoUsableIndex(log[k].seen, Len(log[k].items)) =>
              /\ log[k].idx = 0
              /\ log[k].item = log[k].items[1]
              /\ log[k].stored = 1 % Len(log[k].items)
    /\ (log # <<>> /\ NoCallRunning) =>
          indexText = IntToStr(log[Len(log)].stored)

\* a call completed on an index file holding "10" for a list of two or more
C5_Witness ==
    /\ log # <<>>
    /\ log[1].seen.text = <<"1", "0">>
    /\ Len(log[1].items) >= 2
    /\ NoCallRunning

\* the list file is one of those the constructor must reject
RejectedListFile(file) ==
    \/ file.kind \in {"missing", "badjson", "nokey", "notlist"}
    \/ file.kind = "list" /\ \A i \in 1..Len(file.list) : strip(file.list[i]) = <<>>

\* C6: construction raises on a missing, malformed, key-less, non-list or
\* all-blank list file; every assigner that exists has a non-empty list of
\* non-empty, stripped, upper-cased items; assign() never fails on the list
\* and never takes its invalid-item branch.
C6_ConstructorValidation ==
    \A a \in Assigners :
        /\ (constructed[a] # "none" /\ RejectedListFile(listFile)) =>
               constructed[a] = "raised"
        /\ constructed[a] = "ok" =>
               /\ items[a] # <<>>
               /\ \A i \in 1..Len(items[a]) :
                     /\ items[a][i] # <<>>
                     /\ strip(items[a][i]) = items[a][i]
                     /\ upper(items[a][i]) = items[a][i]
        /\ apc[a] # "raised"
        /\ ~fallback[a]

\* construction was refused for a list of two or more blank strings
C6_Witness ==
    \E a \in Assigners :
        /\ constructed[a] = "raised"
        /\ listFile.kind = "list"
        /\ Len(listFile.list) >= 2

-----------------------------------------------------------------------------
(* Properties of players.json                                              *)

\* C7: from an absent or duplicate-free players.json, under any interleaving of
\* save_player_to_lobby_file calls, players.json never holds two entries with
\* the same code_name.
C7_NoDuplicateEntries ==
    playersData.ok =>
        \A i \in 1..Len(playersData.list) : \A j \in 1..Len(playersData.list) :
            playersData.list[i].code_name = playersData.list[j].code_name => i = j

\* two players with the same code name have both saved themselves; the file
\* holds that code name
C7_Witness ==
    \E p \in Players : \E q \in Players \ {p} :
        /\ code_name[p] = code_name[q]
        /\ saves[p] >= 1
        /\ saves[q] >= 1
        /\ playersData.ok
        /\ \E i \in 1..Len(playersData.list) :
              playersData.list[i].code_name = code_name[p]

-----------------------------------------------------------------------------
(* Properties of the start-time file                                       *)

\* C2: once every player has returned from synchronize_start_time, all hold the
\* same ps.starttime, and it is the timestamp stored in the start-time file.
C2_StartTimeAgreement ==
    (\A p \in Players : spc[p] = "done") =>
        /\ strptime(startText).ok
        /\ \A p \in Players : starttime[p] = strptime(startText).val

\* C8: a call that found the file absent and returned has made its player the
\* timekeeper, created the file and written its own time; a call that found the
\* file present has left the file, ps.timekeeper and gs.players alone and has
\* set ps.starttime to the timestamp it read.
C8_TimekeeperAssignment ==
    \A p \in Players :
        /\ (spc[p] = "done" /\ sawFile[p] = "absent") =>
              /\ timekeeper[p]
              /\ created[p]
              /\ wrote[p] = strftime(starttime[p])
        /\ (spc[p] \in {"done", "raised"} /\ sawFile[p] = "present") =>
              /\ ~timekeeper[p]
              /\ ~created[p]
              /\ wrote[p] = <<>>
              /\ gsPlayers[p] = <<>>
              /\ strptime(readText[p]).ok
              /\ starttime[p] = strptime(readText[p]).val

\* C9: at most one player ends as timekeeper, and no two different timestamps
\* are ever written to the start-time file.
C9_SingleTimekeeper ==
    /\ Cardinality({p \in Players : timekeeper[p]}) <= 1
    /\ \A p \in Players : \A q \in Players :
          (wrote[p] # <<>> /\ wrote[q] # <<>>) => wrote[p] = wrote[q]

\* C10: whenever the start-time file exists it holds a complete timestamp, and
\* no player that found the file present fails to parse it.
C10_NoUnfinishedFile ==
    /\ startExists => strptime(startText).ok
    /\ \A p \in Players : ~(sawFile[p] = "present" /\ spc[p] = "raised")

-----------------------------------------------------------------------------
(* Properties of SequentialAssigner under concurrent callers               *)

\* the entries of a list are pairwise different
Distinct(list) ==
    \A i \in 1..Len(list) : \A j \in 1..Len(list) : list[i] = list[j] => i = j

\* C11: when several processes call assign() in any interleaving, the first
\* len(items) completed calls use different list positions (and so return
\* different items of a list without repeated entries), and each completed
\* call stores the index of the previous completed call plus one, mod len(items).
C11_UniqueAssignment ==
    /\ \A j \in 1..Len(log) : \A k \in 1..Len(log) :
          (j < k /\ k <= Len(log[1].items)) =>
              /\ log[j].idx # log[k].idx
              /\ Distinct(log[1].items) => log[j].item # log[k].item
    /\ \A k \in 2..Len(log) :
          log[k].stored = (log[k - 1].stored + 1) % Len(log[k].items)

-----------------------------------------------------------------------------
(* Properties of players.json under concurrent and repeated saves          *)


\* C12: once a player's save_player_to_lobby_file has returned, players.json
\* holds an entry with the player's code_name whenever no save is in progress,
\* whatever other players saved later or at the same time.
C12_NoLostRegistration ==
    \A p \in Players :
        (saves[p] >= 1 /\ NoSaveRunning) =>
            /\ playersExists
            /\ playersData.ok
            /\ \E i \in 1..Len(playersData.list) :
                  playersData.list[i].code_name = code_name[p]

-----------------------------------------------------------------------------
(* Termination of synchronize_start_time                                   *)

\* the call of player p has ended: it returned or raised
SyncEnded(p) == spc[p] \in {"done", "raised"}

\* C13: every call of synchronize_start_time ends; a player in the polling
\* loop finds the file present at its next check, and the file, once it exists,
\* is never deleted.
C13_Terminates ==
    /\ \A p \in Players : (spc[p] # "idle") ~> SyncEnded(p)
    /\ [](\A p \in Players : spc[p] = "wait" => startExists)
    /\ [][startExists => startExists']_vars

\* a player that found the file present has passed the polling loop and returned
C13_Witness ==
    \E p \in Players : sawFile[p] = "present" /\ spc[p] = "done"

-----------------------------------------------------------------------------
(* Properties of read_new_messages                                         *)

\* the non-blank lines among the first k lines of the file, stripped, in file order
RECURSIVE Messages(_, _)
Messages(lines, k) ==
    IF k = 0 THEN <<>>
    ELSE IF \A i \in 1..Len(lines[k]) : lines[k][i] \in Whitespace
         THEN Messages(lines, k - 1)
         ELSE Append(Messages(lines, k - 1), strip(lines[k]))

\* C14: over any sequence of appends and reads the reader has received exactly
\* the non-blank lines of the file as of its last call, once each and in file
\* order; the returned last_line is len(full_chat_list); a call with nothing
\* appended since the previous one returns no new messages and the same
\* last_line.
C14_DeliveredOnceInOrder ==
    /\ received = Messages(chatFile, lastRead.lines)
    /\ last_line = lastRead.last_line
    /\ lastRead.called =>
          /\ lastRead.last_line = Len(lastRead.full_chat_list)
          /\ lastRead.full_chat_list = Messages(chatFile, lastRead.lines)
    /\ (lastRead.called /\ ~lastRead.appended) =>
          /\ lastRead.new_messages_list = <<>>
          /\ lastRead.last_line = lastRead.arg

\* the reader has received two messages from a file that starts with a blank
\* line, and its last call, with nothing appended before it, returned nothing
C14_Witness ==
    /\ Len(chatFile) = 3
    /\ strip(chatFile[1]) = <<>>
    /\ Len(received) = 2
    /\ lastRead.called
    /\ ~lastRead.appended
    /\ lastRead.arg = 2

-----------------------------------------------------------------------------
(* Properties of the roster under calls that do not overlap                *)

HasCodeName(list, c) == \E i \in 1..Len(list) : list[i].code_name = c

\* the save call begun last has returned
LastSaveReturned == lastSave.p # 0 /\ NoSaveRunning

\* C15: a save for a player whose code_name is already in players.json leaves
\* the list of entries as it was: nothing is added and the recorded entry is
\* kept even when the other fields of the saved state differ, so a second save
\* of a player gives the roster of the first.
C15_FirstWriterWins ==
    (/\ LastSaveReturned
     /\ lastSave.exists
     /\ lastSave.data.ok
     /\ HasCodeName(lastSave.data.list, code_name[lastSave.p]))
    => /\ playersExists
       /\ playersData = lastSave.data

\* a player has saved under a code name whose recorded entry is another
\* player's, and the same player has saved twice
C15_Witness ==
    /\ LastSaveReturned
    /\ lastSave.exists
    /\ lastSave.data.ok
    /\ \E i \in 1..Len(lastSave.data.list) :
          /\ lastSave.data.list[i].code_name = code_name[lastSave.p]
          /\ lastSave.data.list[i].owner # lastSave.p
    /\ saves[lastSave.p] = 2

\* the position in h of the first state saved under code name c
FirstSave(h, c) ==
    CHOOSE k \in 1..Len(h) :
        /\ h[k].code_name = c
        /\ \A m \in 1..(k - 1) : h[m].code_name # c

\* the states saved by the calls that had returned when load r was called
SavedBefore(r) == SubSeq(history, 1, r.saved)

C17_MalformedRoster ==
    /\ (LastSaveReturned /\ lastSave.exists /\ ~lastSave.data.ok) =>
          /\ playersExists
          /\ playersData = Json(<<Entry(code_name[lastSave.p], lastSave.p)>>)
    /\ (loaded.state # "none" /\ loaded.exists /\ ~loaded.data.ok) =>
          loaded.state = "raised"

\* a load met the malformed file and then a save, begun on it, returned
C17_Witness ==
    /\ loaded.state = "raised"
    /\ loaded.exists
    /\ ~loaded.data.ok
    /\ LastSaveReturned
    /\ lastSave.exists
    /\ ~lastSave.data.ok
    /\ saves[lastSave.p] = 1

====
